---- MODULE Spec2Model ----
(***************************************************************************)
(* Model of scraperio.py: the entry point (__main__), the retry loop of    *)
(* search_and_save_page, page persistence (save_webpage) and the           *)
(* downstream hand-off (execute_crawler).                                  *)
(*                                                                         *)
(* The browser, the file system and the operator are the environment:      *)
(* every call into them is a step whose outcome is chosen among the        *)
(* outcomes the call can have (normal return, an Exception, an operator    *)
(* interrupt = KeyboardInterrupt, which is a BaseException and therefore   *)
(* caught by a bare "except:" but not by "except Exception").              *)
(***************************************************************************)
EXTENDS Integers, Sequences, FiniteSets, TLC

VARIABLES
    pc,               \* position of the program
    rawInput,         \* the line read from standard input
    query,            \* rawInput.strip()
    max_retries,      \* parameter of search_and_save_page
    take_screenshot,  \* parameter of save_webpage
    retry_count,      \* local of search_and_save_page
    session,          \* the browser session: "none", "live", "quit"
    attempts,         \* history: number of navigations to the site root
    failures,         \* history: number of runs of the except handler
    quitCalls,        \* history: number of driver.quit() calls
    usedAfterQuit,    \* history: a driver call was made on a quit session
    selector,         \* index of the selector probed by the current loop
    search_input,     \* 0 = None, n = element located by search selector n
    displayed,        \* is_displayed() of the element held in search_input
    submitted,        \* history: the query was typed in this attempt
    results_found,    \* local of search_and_save_page
    warned,           \* history: this attempt logged "Could not confirm"
    htmlFile,         \* the HTML file of this run: "absent","empty","nonempty"
    pngFile,          \* the screenshot file of this run: "absent","present"
    saved_files,      \* value returned by save_webpage
    saveCalls,        \* history: number of calls of save_webpage
    shotCalls,        \* history: number of calls of driver.save_screenshot
    saveRaised,       \* history: an exception was raised inside save_webpage
    pending,          \* what the try statement does once finally has run
    result,           \* value returned by search_and_save_page
    crawlerLaunches,  \* history: number of subprocess.run calls
    crawlerStatus,    \* outcome of execute_crawler
    interrupts,       \* history: number of operator interrupts raised
    interruptAt,      \* history: position of the first interrupt raised
    outcome           \* how the program ended

vars == <<pc, rawInput, query, max_retries, take_screenshot, retry_count,
          session, attempts, failures, quitCalls, usedAfterQuit, selector,
          search_input, displayed, submitted, results_found, warned,
          htmlFile, pngFile, saved_files, saveCalls, shotCalls, saveRaised,
          pending, result, crawlerLaunches, crawlerStatus, interrupts, interruptAt,
          outcome>>

\* ---------------------------------------------------------------- bounds
MaxRetriesBound == 2
MaxInterrupts == 1
MaxQueryLen == 2

\* ------------------------------------------------------ program constants
NumSearchSelectors == 5
NumResultSelectors == 7

\* a path is a sequence of characters and suffixes; NoPath is an absent path
NoPath == <<>>

\* the value None where a Capture Result is expected
None == [html_path |-> NoPath, screenshot_path |-> NoPath]

\* search_and_save_page has not returned yet
Unset == [html_path |-> <<"unset">>, screenshot_path |-> NoPath]

Chars == {" ", "a"}

RECURSIVE SeqsUpTo(_)
SeqsUpTo(n) ==
    IF n = 0 THEN {<<>>}
    ELSE LET S == SeqsUpTo(n - 1)
         IN  S \cup {Append(s, c) : s \in {t \in S : Len(t) = n - 1}, c \in Chars}

RawInputs == SeqsUpTo(MaxQueryLen)

\* ---------------------------------------------------------- pure helpers
RECURSIVE LStrip(_)
LStrip(s) ==
    IF s # <<>> /\ Head(s) = " " THEN LStrip(Tail(s)) ELSE s

RECURSIVE RStrip(_)
RStrip(s) ==
    IF s # <<>> /\ s[Len(s)] = " " THEN RStrip(SubSeq(s, 1, Len(s) - 1)) ELSE s

NoStrip(s) == s

\* str.strip(): leading and trailing whitespace removed
Strip(s) == RStrip(LStrip(s))

\* search_query.replace(' ', '_')
Replace(s) == [i \in 1..Len(s) |-> IF s[i] = " " THEN "_" ELSE s[i]]

\* base_filename without the constant prefix and the timestamp
BaseFilename(q) == Replace(q)

LoopCondStrict(rc, mr) == rc < mr

\* while retry_count <= max_retries
LoopCond(rc, mr) == rc <= mr

\* if retry_count == max_retries or not retry_count
TeardownGuard(rc, mr) == rc = mr \/ rc = 0

VerifiedExists(file) == file # "absent"

\* os.path.exists(html_filepath) and os.path.getsize(html_filepath) > 0
Verified(file) == file = "nonempty"

LaunchesAlways(saved) == TRUE

\* if saved_files: (in __main__)
Truthy(saved) == saved # None

SaveExceptionEscapes == "except"

\* except Exception in save_webpage: log, return None to the caller
SaveExceptionTarget == "check_saved"

ResultsMissingRaises == "except"

\* if not results_found: logging.warning(...), then execution continues
ResultsMissingTarget == "load2"

NoResultRetries == "except"

\* "return None" after an unsuccessful save_webpage: leaves through finally
NoResultTarget == "finally"

\* ------------------------------------------------------------ the state
cfgV  == <<rawInput, query, max_retries, take_screenshot>>
loopV == <<retry_count, session, attempts, failures, quitCalls, usedAfterQuit>>
pageV == <<selector, search_input, displayed, submitted, results_found, warned>>
saveV == <<htmlFile, pngFile, saved_files, saveCalls, shotCalls, saveRaised>>
mainV == <<result, crawlerLaunches, crawlerStatus, outcome>>
intV  == <<interrupts, interruptAt>>

\* the steps of one attempt, from the navigation to the end of persistence
AttemptPcs == {"get", "load1", "cookie", "find", "check_input", "type",
               "results", "load2", "scroll", "save", "save_write",
               "save_shot", "save_verify", "check_saved"}

Init ==
    /\ pc = "input"
    /\ rawInput = <<>>
    /\ query = <<>>
    /\ max_retries \in 0..MaxRetriesBound
    /\ take_screenshot \in BOOLEAN
    /\ retry_count = 0
    /\ session = "none"
    /\ attempts = 0
    /\ failures = 0
    /\ quitCalls = 0
    /\ usedAfterQuit = FALSE
    /\ selector = 1
    /\ search_input = 0
    /\ displayed = FALSE
    /\ submitted = FALSE
    /\ results_found = FALSE
    /\ warned = FALSE
    /\ htmlFile = "absent"
    /\ pngFile = "absent"
    /\ saved_files = None
    /\ saveCalls = 0
    /\ shotCalls = 0
    /\ saveRaised = FALSE
    /\ pending = "none"
    /\ result = Unset
    /\ crawlerLaunches = 0
    /\ crawlerStatus = "none"
    /\ interrupts = 0
    /\ interruptAt = "none"
    /\ outcome = "running"

\* --------------------------------------------- control transfers in a try
CanInterrupt == interrupts < MaxInterrupts

NoteInterrupt ==
    /\ interrupts' = interrupts + 1
    /\ interruptAt' = IF interruptAt = "none" THEN pc ELSE interruptAt

\* normal completion of a step
Goto(p) == pc' = p /\ UNCHANGED <<pending, intV>>

\* an Exception raised in the try body of the retry loop: except Exception
Raise == pc' = "except" /\ UNCHANGED <<pending, intV>>

\* a KeyboardInterrupt raised where only "except Exception" is in force:
\* the finally clause runs and the interrupt propagates to __main__
Interrupt ==
    /\ CanInterrupt
    /\ NoteInterrupt
    /\ pc' = "finally"
    /\ pending' = "interrupt"

\* a KeyboardInterrupt raised under a bare "except:": caught like any other
Swallowed == CanInterrupt /\ NoteInterrupt /\ UNCHANGED pending

\* ------------------------------------------------------------- __main__
ReadInput ==
    /\ pc = "input"
    /\ \/ \E raw \in RawInputs :
            /\ rawInput' = raw
            /\ query' = Strip(raw)
            /\ IF query' # <<>>
               THEN pc' = "setup" /\ UNCHANGED outcome
               ELSE pc' = "done" /\ outcome' = "empty"
            /\ UNCHANGED intV
       \/ /\ CanInterrupt
          /\ NoteInterrupt
          /\ pc' = "kbd"
          /\ UNCHANGED <<rawInput, query, outcome>>
    /\ UNCHANGED <<max_retries, take_screenshot, loopV, pageV, saveV, pending,
                   result, crawlerLaunches, crawlerStatus>>

\* ------------------------------------------------- search_and_save_page
CreateSession ==
    /\ pc = "setup"
    /\ \/ /\ session' = "live"
          /\ retry_count' = 0
          /\ pc' = "loop"
       \/ /\ pc' = "unexpected"
          /\ UNCHANGED <<session, retry_count>>
    /\ UNCHANGED <<cfgV, attempts, failures, quitCalls, usedAfterQuit, pageV,
                   saveV, pending, mainV, intV>>

\* The while test and the entry of the try body
LoopTest ==
    /\ pc = "loop"
    /\ IF LoopCond(retry_count, max_retries)
       THEN pc' = "get" /\ UNCHANGED result
       ELSE pc' = "main_check" /\ result' = None
    /\ UNCHANGED <<cfgV, loopV, pageV, saveV, pending, crawlerLaunches,
                   crawlerStatus, outcome, intV>>

\* driver.get: a command sent to a session that was quit raises
Navigate ==
    /\ pc = "get"
    /\ attempts' = attempts + 1
    /\ usedAfterQuit' = (usedAfterQuit \/ session = "quit")
    /\ \/ session = "live" /\ Goto("load1")
       \/ Raise
       \/ Interrupt
    /\ UNCHANGED <<cfgV, retry_count, session, failures, quitCalls, pageV,
                   saveV, mainV>>

\* wait_for_page_load false or raising: both reach the except handler
WaitLoad1 ==
    /\ pc = "load1"
    /\ \/ Goto("cookie")
       \/ Raise
       \/ Interrupt
    /\ UNCHANGED <<cfgV, loopV, pageV, saveV, mainV>>

CookieConsent ==
    /\ pc = "cookie"
    /\ pc' = "find"
    /\ \/ UNCHANGED <<pending, intV>>
       \/ Swallowed
    /\ search_input' = 0
    /\ displayed' = FALSE
    /\ selector' = 1
    /\ UNCHANGED <<cfgV, loopV, submitted, results_found, warned, saveV, mainV>>

NeverBreak == FALSE

\* if search_input.is_displayed(): break
BreakOnDisplayed == TRUE

\* one pass of "for selector in search_selectors": wait.until returns an
\* element that is displayed (break), returns one that is not displayed or
\* whose is_displayed() raises (search_input keeps it, next selector), or
\* raises (next selector; the bare except catches an interrupt too)
ProbeSearchSelector ==
    /\ pc = "find"
    /\ selector <= NumSearchSelectors
    /\ \/ /\ search_input' = selector
          /\ displayed' = TRUE
          /\ IF BreakOnDisplayed
             THEN pc' = "check_input" /\ UNCHANGED selector
             ELSE /\ selector' = selector + 1
                  /\ pc' = IF selector = NumSearchSelectors
                           THEN "check_input" ELSE "find"
          /\ UNCHANGED <<pending, intV>>
       \/ /\ \/ /\ search_input' = selector
                /\ displayed' = FALSE
                /\ UNCHANGED <<pending, intV>>
             \/ UNCHANGED <<search_input, displayed, pending, intV>>
             \/ Swallowed /\ UNCHANGED <<search_input, displayed>>
          /\ selector' = selector + 1
          /\ pc' = IF selector = NumSearchSelectors THEN "check_input" ELSE "find"
    /\ UNCHANGED <<cfgV, loopV, submitted, results_found, warned, saveV, mainV>>

CheckSearchInput ==
    /\ pc = "check_input"
    /\ IF search_input = 0 THEN Raise ELSE Goto("type")
    /\ UNCHANGED <<cfgV, loopV, pageV, saveV, mainV>>

PerformSearch ==
    /\ pc = "type"
    /\ \/ /\ Goto("results")
          /\ submitted' = TRUE
          /\ selector' = 1
          /\ results_found' = FALSE
       \/ Raise /\ UNCHANGED <<submitted, selector, results_found>>
       \/ Raise /\ submitted' = TRUE /\ UNCHANGED <<selector, results_found>>
       \/ Interrupt /\ UNCHANGED <<submitted, selector, results_found>>
    /\ UNCHANGED <<cfgV, loopV, search_input, displayed, warned, saveV, mainV>>

ProbeResultSelector ==
    /\ pc = "results"
    /\ selector <= NumResultSelectors
    /\ \/ /\ results_found' = TRUE
          /\ pc' = "load2"
          /\ UNCHANGED <<selector, warned, pending, intV>>
       \/ /\ \/ UNCHANGED <<pending, intV>>
             \/ Swallowed
          /\ selector' = selector + 1
          /\ IF selector = NumResultSelectors
             THEN pc' = ResultsMissingTarget /\ warned' = TRUE
             ELSE pc' = "results" /\ UNCHANGED warned
          /\ UNCHANGED results_found
    /\ UNCHANGED <<cfgV, loopV, search_input, displayed, submitted, saveV, mainV>>

WaitLoad2 ==
    /\ pc = "load2"
    /\ \/ Goto("scroll")
       \/ Raise
       \/ Interrupt
    /\ UNCHANGED <<cfgV, loopV, pageV, saveV, mainV>>

Scroll ==
    /\ pc = "scroll"
    /\ \/ Goto("save")
       \/ Raise
       \/ Interrupt
    /\ UNCHANGED <<cfgV, loopV, pageV, saveV, mainV>>

\* ---------------------------------------------------------- save_webpage
\* an Exception raised inside save_webpage: its handler returns None
SaveRaise ==
    /\ pc' = SaveExceptionTarget
    /\ saved_files' = None
    /\ saveRaised' = TRUE
    /\ UNCHANGED <<pending, intV>>

\* the call, os.makedirs and driver.page_source
SavePrepare ==
    /\ pc = "save"
    /\ saveCalls' = saveCalls + 1
    /\ \/ Goto("save_write") /\ UNCHANGED <<saved_files, saveRaised>>
       \/ SaveRaise
       \/ Interrupt /\ UNCHANGED <<saved_files, saveRaised>>
    /\ UNCHANGED <<cfgV, loopV, pageV, htmlFile, pngFile, shotCalls, mainV>>

\* open(html_filepath, 'w') and the two writes.  Written in full the file
\* holds the doctype line and is not empty; open can fail (no file), a
\* write can fail after the file was created, and what the file system holds
\* afterwards is what the verification observes.
WriteHtml ==
    /\ pc = "save_write"
    /\ \/ /\ htmlFile' \in {"nonempty", "empty", "absent"}
          /\ Goto("save_shot")
          /\ UNCHANGED <<saved_files, saveRaised>>
       \/ /\ htmlFile' \in {"absent", "empty", "nonempty"}
          /\ SaveRaise
       \/ /\ htmlFile' \in {"empty", "nonempty"}
          /\ Interrupt
          /\ UNCHANGED <<saved_files, saveRaised>>
    /\ UNCHANGED <<cfgV, loopV, pageV, pngFile, saveCalls, shotCalls, mainV>>

ScreenshotAlways(ts) == TRUE

\* if take_screenshot: (screenshot_path stays None otherwise)
ScreenshotRequested(ts) == ts

\* driver.save_screenshot: writes the file, returns False on an I/O error,
\* or raises
SaveScreenshot ==
    /\ pc = "save_shot"
    /\ IF ScreenshotRequested(take_screenshot)
       THEN /\ shotCalls' = shotCalls + 1
            /\ \/ /\ pngFile' \in {"present", "absent"}
                  /\ Goto("save_verify")
                  /\ UNCHANGED <<saved_files, saveRaised>>
               \/ SaveRaise /\ UNCHANGED pngFile
               \/ Interrupt /\ UNCHANGED <<pngFile, saved_files, saveRaised>>
       ELSE /\ Goto("save_verify")
            /\ UNCHANGED <<pngFile, shotCalls, saved_files, saveRaised>>
    /\ UNCHANGED <<cfgV, loopV, pageV, htmlFile, saveCalls, mainV>>

CaptureResult ==
    [html_path |-> BaseFilename(query) \o <<".html">>,
     screenshot_path |-> IF ScreenshotRequested(take_screenshot)
                         THEN BaseFilename(query) \o <<".png">>
                         ELSE NoPath]

SaveVerify ==
    /\ pc = "save_verify"
    /\ saved_files' = IF Verified(htmlFile) THEN CaptureResult ELSE None
    /\ Goto("check_saved")
    /\ UNCHANGED <<cfgV, loopV, pageV, htmlFile, pngFile, saveCalls,
                   shotCalls, saveRaised, mainV>>

\* ------------------------------------- search_and_save_page, continued
\* if saved_files and os.path.exists(...): return saved_files; return None
CheckSaved ==
    /\ pc = "check_saved"
    /\ IF saved_files # None /\ htmlFile # "absent"
       THEN pc' = "finally" /\ pending' = "return_saved"
       ELSE pc' = NoResultTarget /\ pending' = "return_none"
    /\ UNCHANGED <<cfgV, loopV, pageV, saveV, mainV, intV>>

\* except Exception as e: count the failure, then retry or give up
ExceptHandler ==
    /\ pc = "except"
    /\ failures' = failures + 1
    /\ retry_count' = retry_count + 1
    /\ pc' = "finally"
    /\ IF retry_count' <= max_retries
       THEN \/ pending' = "continue" /\ UNCHANGED intV
            \/ /\ CanInterrupt
               /\ NoteInterrupt
               /\ pending' = "interrupt"
       ELSE pending' = "return_none" /\ UNCHANGED intV
    /\ UNCHANGED <<cfgV, session, attempts, quitCalls, usedAfterQuit, pageV,
                   saveV, mainV>>

\* the locals of an attempt when no attempt is running
FreshLocals ==
    /\ selector' = 1
    /\ search_input' = 0
    /\ displayed' = FALSE
    /\ submitted' = FALSE
    /\ results_found' = FALSE
    /\ warned' = FALSE

\* finally: the guarded driver.quit(), then what the try statement was doing.
\* The attempt is over: its locals are gone when the function is left, and
\* are assigned again before the next attempt reads them.
Finally ==
    /\ pc = "finally"
    /\ IF TeardownGuard(retry_count, max_retries)
       THEN session' = "quit" /\ quitCalls' = quitCalls + 1
       ELSE UNCHANGED <<session, quitCalls>>
    /\ pending' = "none"
    /\ CASE pending = "continue"     -> pc' = "loop" /\ UNCHANGED result
         [] pending = "return_saved" -> pc' = "main_check" /\ result' = saved_files
         [] pending = "return_none"  -> pc' = "main_check" /\ result' = None
         [] pending = "interrupt"    -> pc' = "kbd" /\ UNCHANGED result
    /\ FreshLocals
    /\ UNCHANGED <<cfgV, retry_count, attempts, failures, usedAfterQuit,
                   saveV, crawlerLaunches, crawlerStatus, outcome, intV>>

\* ------------------------------------------------- __main__, continued
MainCheck ==
    /\ pc = "main_check"
    /\ IF Truthy(result)
       THEN pc' = "crawler" /\ UNCHANGED outcome
       ELSE pc' = "done" /\ outcome' = "failed"
    /\ UNCHANGED <<cfgV, loopV, pageV, saveV, pending, result,
                   crawlerLaunches, crawlerStatus, intV>>

CrawlerFailureEscapes == "unexpected"

\* except CalledProcessError / except Exception in execute_crawler: the
\* failure is logged and execute_crawler returns to __main__, which ends
CrawlerFailureTarget == "done"

\* execute_crawler: subprocess.run(..., check=True) ends with status 0, with
\* a non-zero status (CalledProcessError) or fails to start the process
ExecuteCrawler ==
    /\ pc = "crawler"
    /\ crawlerLaunches' = crawlerLaunches + 1
    /\ \E status \in {"ok", "nonzero", "launch_error"} :
          /\ crawlerStatus' = status
          /\ pc' = IF status = "ok" THEN "done" ELSE CrawlerFailureTarget
    /\ outcome' = IF pc' = "done" THEN "captured" ELSE outcome
    /\ UNCHANGED <<cfgV, loopV, pageV, saveV, pending, result, intV>>

\* except KeyboardInterrupt
HandleKeyboardInterrupt ==
    /\ pc = "kbd"
    /\ pc' = "done"
    /\ outcome' = "cancelled"
    /\ UNCHANGED <<cfgV, loopV, pageV, saveV, pending, result,
                   crawlerLaunches, crawlerStatus, intV>>

\* except Exception as e
HandleUnexpected ==
    /\ pc = "unexpected"
    /\ pc' = "done"
    /\ outcome' = "error"
    /\ UNCHANGED <<cfgV, loopV, pageV, saveV, pending, result,
                   crawlerLaunches, crawlerStatus, intV>>

Next ==
    \/ ReadInput
    \/ CreateSession
    \/ LoopTest
    \/ Navigate
    \/ WaitLoad1
    \/ CookieConsent
    \/ ProbeSearchSelector
    \/ CheckSearchInput
    \/ PerformSearch
    \/ ProbeResultSelector
    \/ WaitLoad2
    \/ Scroll
    \/ SavePrepare
    \/ WriteHtml
    \/ SaveScreenshot
    \/ SaveVerify
    \/ CheckSaved
    \/ ExceptHandler
    \/ Finally
    \/ MainCheck
    \/ ExecuteCrawler
    \/ HandleKeyboardInterrupt
    \/ HandleUnexpected

Spec == Init /\ [][Next]_vars

TypeOK ==
    /\ retry_count \in 0..(max_retries + 1)
    /\ session \in {"none", "live", "quit"}
    /\ search_input \in 0..NumSearchSelectors
    /\ htmlFile \in {"absent", "empty", "nonempty"}
    /\ pending \in {"none", "continue", "return_saved", "return_none", "interrupt"}

\* ------------------------------------------------------------ properties
\* search_and_save_page has returned a value to __main__
Returned == result # Unset

\* the value returned is a Capture Result
Captured == Returned /\ result # None

\* control has left search_and_save_page (a return or a propagating interrupt)
Exited == session # "none" /\ pc \in {"main_check", "crawler", "done", "kbd"}

AllSpaces(s) == \A i \in 1..Len(s) : s[i] = " "

\* C1: never more than max_retries + 1 attempts are started, and a call in
\* which every attempt ended in the except handler returns None after
\* exactly max_retries + 1 attempts.
C1_RetryCountRespected ==
    /\ attempts <= max_retries + 1
    /\ (Returned /\ failures = attempts)
          => (attempts = max_retries + 1 /\ result = None)

C1_Witness ==
    /\ pc = "done"
    /\ max_retries = 2
    /\ failures = 3
    /\ attempts = 3
    /\ result = None

\* C2: whenever control has left search_and_save_page, by a return or by a
\* propagating interrupt, driver.quit() has been executed on the session.
C2_SessionDestroyedOnExit == Exited => session = "quit"

\* C3: a Capture Result is produced by save_webpage, and returned by
\* search_and_save_page, only when the HTML file exists and is not empty;
\* with the file missing or empty, or after an exception in save_webpage,
\* the value is None.
C3_CaptureOnlyIfFileNonEmpty ==
    /\ Captured => htmlFile = "nonempty"
    /\ (pc = "check_saved" /\ saved_files # None) => htmlFile = "nonempty"
    /\ (pc = "check_saved" /\ (htmlFile # "nonempty" \/ saveRaised))
          => saved_files = None
    /\ (Returned /\ htmlFile # "nonempty") => result = None

C3_Witness ==
    /\ pc = "main_check"
    /\ result = CaptureResult
    /\ htmlFile = "nonempty"

C5_TeardownExactlyOnce ==
    /\ (pc = "done" /\ session # "none") => quitCalls = 1
    /\ session = "quit" => (retry_count = 0 \/ retry_count = max_retries + 1)

\* C6: save_webpage is called at most once per run; once it has produced a
\* Capture Result the function only returns it (no step of an attempt and no
\* retry follows), and a run that returns one has written one HTML file.
C6_ReturnAfterFirstSave ==
    /\ saveCalls <= 1
    /\ saved_files # None =>
          /\ pc \in {"check_saved", "finally", "main_check", "crawler", "done"}
          /\ pc = "finally" => pending = "return_saved"
          /\ Returned => result = saved_files
    /\ Captured => (saveCalls = 1 /\ htmlFile = "nonempty")

C6_Witness ==
    /\ pc = "main_check"
    /\ failures = 1
    /\ attempts = 2
    /\ saveCalls = 1
    /\ Captured

\* C7: when the last result-container selector fails too, the same attempt
\* goes on to the ready-state re-check: it is not aborted, and the retry
\* counter, the attempt count and the failure count are unchanged.
C7_MissingResultsNotFatal ==
    [][(pc = "results" /\ selector = NumResultSelectors /\ ~results_found')
          => /\ pc' = "load2"
             /\ retry_count' = retry_count
             /\ attempts' = attempts
             /\ failures' = failures]_vars

C7_Witness ==
    /\ warned
    /\ ~results_found
    /\ failures = 0
    /\ pc = "finally"
    /\ pending = "return_saved"
    /\ saved_files = CaptureResult

\* C8: after an exception inside save_webpage the value of save_webpage is
\* None, the except handler of the retry loop never runs again, no attempt
\* is started, and search_and_save_page returns None from that attempt.
C8_SaveExceptionContained ==
    saveRaised =>
        /\ saved_files = None
        /\ pc \in {"check_saved", "finally", "main_check", "done"}
        /\ pc = "finally" => pending = "return_none"
        /\ Returned => result = None
        /\ saveCalls = 1
        /\ crawlerLaunches = 0

C8_Witness ==
    /\ saveRaised
    /\ pc = "done"
    /\ result = None
    /\ max_retries = 2
    /\ retry_count = 0
    /\ attempts = 1

\* C9: when the line read is empty or only whitespace no session is
\* created, no attempt runs, no file is written and the downstream process
\* is not launched.
C9_EmptyQueryShortCircuits ==
    AllSpaces(rawInput) =>
        /\ session = "none"
        /\ attempts = 0
        /\ saveCalls = 0
        /\ htmlFile = "absent"
        /\ pngFile = "absent"
        /\ crawlerLaunches = 0
        /\ pc \in {"input", "kbd", "done"}

C9_Witness ==
    /\ pc = "done"
    /\ outcome = "empty"
    /\ rawInput = <<" ">>

\* C10: after an operator interrupt raised while an attempt is running, the
\* program is only in the finally clause, the top-level handler or at its
\* end; the attempt is not counted as failed, nothing is returned and the
\* downstream process is not launched.
C10_InterruptAborts ==
    interruptAt \in AttemptPcs =>
        /\ pc \in {"finally", "kbd", "done"}
        /\ pending \in {"interrupt", "none"}
        /\ ~Returned
        /\ crawlerLaunches = 0

\* C11: after the downstream process failed (non-zero status or failure to
\* launch) the program has ended normally: the top-level handlers were not
\* entered, the outcome is that of a successful capture and the Capture
\* Result returned is unchanged.
C11_CrawlerFailureOnlyLogged ==
    crawlerStatus \in {"nonzero", "launch_error"} =>
        /\ pc = "done"
        /\ outcome = "captured"
        /\ result = CaptureResult
        /\ htmlFile = "nonempty"

C11_Witness ==
    /\ crawlerStatus = "launch_error"
    /\ crawlerLaunches = 1
    /\ pc = "done"
    /\ outcome = "captured"

\* a path without its suffix
Stem(path) == SubSeq(path, 1, Len(path) - 1)

\* C12: with take_screenshot false the screenshot operation is never called,
\* no .png file exists and a Capture Result has no screenshot_path; with it
\* true the screenshot_path of a Capture Result is the .png path with the
\* stem of html_path.
C12_ScreenshotOptional ==
    /\ ~take_screenshot =>
          /\ shotCalls = 0
          /\ pngFile = "absent"
          /\ saved_files.screenshot_path = NoPath
          /\ result.screenshot_path = NoPath
    /\ (take_screenshot /\ saved_files # None) =>
          /\ shotCalls = 1
          /\ saved_files.screenshot_path # NoPath
          /\ Stem(saved_files.screenshot_path) = Stem(saved_files.html_path)
          /\ saved_files.screenshot_path[Len(saved_files.screenshot_path)] = ".png"

C12_Witness ==
    /\ ~take_screenshot
    /\ pc = "main_check"
    /\ Captured
    /\ result.screenshot_path = NoPath
    /\ pngFile = "absent"

\* C13: no driver call is made on a session that was quit: every step of an
\* attempt runs with the session live.
C13_NoUseAfterQuit ==
    /\ ~usedAfterQuit
    /\ pc \in AttemptPcs => session = "live"

\* C14: a probe that locates a displayed element ends the search-input loop
\* with that element and without advancing to a later selector, so the
\* element held when the query is typed, if displayed, is the one of the
\* selector at which probing stopped: the first one that yielded a
\* displayed element.
C14_FirstSuccessWins ==
    /\ []((pc \in {"check_input", "type"} /\ displayed)
             => search_input = selector)
    /\ [][(pc = "find" /\ displayed' /\ search_input' = selector)
             => (pc' = "check_input" /\ selector' = selector)]_vars

C14_Witness ==
    /\ pc = "type"
    /\ displayed
    /\ search_input = 3
    /\ selector = 3

\* C15: the query is typed only into an element that was found displayed:
\* when the loop ends without one, search_input is None, so that the
\* attempt raises instead of typing.
C15_NoVisibleInputRaises ==
    /\ (pc = "check_input" /\ ~displayed) => search_input = 0
    /\ (pc = "type" \/ submitted) => displayed

\* C16 as stated: whenever save_webpage or search_and_save_page returns
\* None, no HTML file of the run exists.
C16_NoResultLeavesNoHtml ==
    /\ (pc = "check_saved" /\ saved_files = None) => htmlFile = "absent"
    /\ (Returned /\ result = None) => htmlFile = "absent"

\* C16 (amended): when search_and_save_page returns None because every
\* attempt raised in the retry loop (search input never found, load
\* timeout, ...), no HTML file and no screenshot of the run exist; an HTML
\* file is left behind by a run that returns None only when save_webpage
\* was called and itself returned None.
C16_FailedAttemptsLeaveNoHtml ==
    /\ (Returned /\ failures = attempts)
          => (htmlFile = "absent" /\ pngFile = "absent" /\ saveCalls = 0)
    /\ (Returned /\ result = None /\ htmlFile # "absent")
          => (saveCalls = 1 /\ failures < attempts)

C16_Witness ==
    /\ pc = "done"
    /\ outcome = "failed"
    /\ max_retries = 1
    /\ failures = 2
    /\ attempts = 2
    /\ htmlFile = "absent"

====
